---- MODULE Spec2Model ----
(***************************************************************************)
(* duo_eit: sentence cleaning (DuoParser.sentences_preprocess), syllable   *)
(* ranking (DuoParser.sentences_set_syllable_length), the result persister *)
(* (DuoParser.save_syllabized_results) and the batch driver (main.py).     *)
(*                                                                         *)
(* A sentence (a Python str) is a sequence of characters; a character is a *)
(* one-character string, or the name of its code point ("U+00FC").         *)
(***************************************************************************)
EXTENDS Integers, Sequences, FiniteSets, TLC

VARIABLES
    pc,                              \* position of the running program
    \* ---- sentences_preprocess: its argument and its locals
    spacy_sentence_tokenizer,
    duo_file_data,
    tokenized_sentences,
    sentences_empty_removed,
    sentences_set_length,
    sentences_strip_tab_whitespace,
    sentence_headers_removed,
    sentence_invalid_char_removed,
    processed,
    \* ---- DuoParser fields and the ranker's arguments and result
    spacy_sentences,                 \* self.__spacy_sentences
    spacy_syllabized,                \* self.__spacy_syllabized
    syllable_amount,
    equality,
    sorted_results,                  \* what sentences_set_syllable_length returns
    \* ---- the driver and the persister
    file_idx,                        \* position of the for loop in `files`
    dir_files,                       \* names indexed by get_duo_abs_file_path
    mode_needs_unique,               \* statistics.mode raises on a tie (Python < 3.8)
    attempted,                       \* files whose DuoParser construction began
    saved,                           \* outcome of the last save_syllabized_results
    written,                         \* result files written by df.to_csv
    raised                           \* the exception that ended the program, or "none"

vars == <<pc, spacy_sentence_tokenizer, duo_file_data, tokenized_sentences,
          sentences_empty_removed, sentences_set_length,
          sentences_strip_tab_whitespace, sentence_headers_removed,
          sentence_invalid_char_removed, processed, spacy_sentences,
          spacy_syllabized, syllable_amount, equality, sorted_results,
          file_idx, dir_files, mode_needs_unique, attempted, saved, written,
          raised>>

clean_vars == <<spacy_sentence_tokenizer, duo_file_data, tokenized_sentences,
                sentences_empty_removed, sentences_set_length,
                sentences_strip_tab_whitespace, sentence_headers_removed,
                sentence_invalid_char_removed, processed>>

rank_vars == <<spacy_sentences, spacy_syllabized, syllable_amount, equality,
               sorted_results>>

main_vars == <<file_idx, dir_files, mode_needs_unique, attempted, saved,
               written, raised>>

(***************************************************************************)
(* Bounds of the model.                                                    *)
(***************************************************************************)
MaxLines == 4          \* raw lines of a generated file
MaxSentences == 3      \* annotated sentences handed to the ranker
MaxThreshold == 4      \* largest syllable_amount tried

(***************************************************************************)
(* Characters.                                                             *)
(***************************************************************************)
TAB == "\t"
NL == "\n"

\* \s, restricted to the whitespace the modelled texts hold
IsSpace(c) == c \in {" ", TAB, NL}

\* \d
IsDigit(c) == c \in {"0", "1", "2", "3", "4", "5", "6", "7", "8", "9"}

RECURSIVE SeqSum(_)
SeqSum(s) == IF s = <<>> THEN 0 ELSE Head(s) + SeqSum(Tail(s))

RECURSIVE Flatten(_)
Flatten(ss) == IF ss = <<>> THEN <<>> ELSE Head(ss) \o Flatten(Tail(ss))

\* number of i with s[i] = x  (collections.Counter)
Count(s, x) == Cardinality({i \in DOMAIN s : s[i] = x})

(***************************************************************************)
(* The compiled patterns of DuoParser.__regex.  Each operator says whether *)
(* pattern.findall(sen) is non-empty, i.e. whether the pattern matches     *)
(* somewhere in sen.                                                       *)
(***************************************************************************)

\* a faulty variant: the second alternative without its ^ anchor, "\s*\n\s*$"
line_tab_break_unanchored(sen) ==
    \E i \in DOMAIN sen :
        /\ sen[i] = NL
        /\ \A j \in (i + 1)..Len(sen) : IsSpace(sen[j])

\* "^\t\n$|^\s*\n\s*$"  ($ also matches just before a final newline)
line_tab_break(sen) ==
    \/ sen = <<TAB, NL>>
    \/ sen = <<TAB, NL, NL>>
    \/ /\ \E i \in DOMAIN sen : sen[i] = NL
       /\ \A j \in DOMAIN sen : IsSpace(sen[j])

\* "\n|\t"
tab_whitespace(c) == c \in {NL, TAB}

\* a faulty variant: a bare space among the alternatives
invalid_char_bare_space(sen) ==
    \E i \in DOMAIN sen : sen[i] \in {"U+F0A7", " ", "U+274D", "U+25CF", "-", "U+274F"}

\* "U+F0A7|U+F0E0 |U+274D|U+25CF|-|U+274F": the private-use glyph U+F0E0
\* counts only when a space follows it
invalid_char(sen) ==
    \E i \in DOMAIN sen :
        \/ sen[i] \in {"U+F0A7", "U+274D", "U+25CF", "-", "U+274F"}
        \/ /\ sen[i] = "U+F0E0"
           /\ i + 1 <= Len(sen)
           /\ sen[i + 1] = " "

\* "\d"
numbers(sen) == \E i \in DOMAIN sen : IsDigit(sen[i])

\* v >= 3 in the dict comprehension over the Counter
HeaderCount == 3

\* d.keys(): the texts that occur at least 3 times
headers_keys(sentences) ==
    {sentences[i] : i \in {j \in DOMAIN sentences :
                              Count(sentences, sentences[j]) >= HeaderCount}}

\* One pattern character against one text character.  The key is compiled
\* unescaped, so "." is the wildcard (any character but a newline); every
\* other character of the modelled texts is a literal.
RegexCharMatches(p, c) == IF p = "." THEN c # NL ELSE p = c

\* pattern.search(text) for a pattern of literals and wildcards
RegexSearch(pattern, text) ==
    \E start \in 1..(Len(text) - Len(pattern) + 1) :
        \A j \in DOMAIN pattern : RegexCharMatches(pattern[j], text[start + j - 1])

\* re.compile("|".join(d.keys())).findall(sen): with no key the pattern is the
\* empty pattern, which matches (the empty string) at every position of sen
headers(keys, sen) ==
    IF keys = {} THEN TRUE ELSE \E k \in keys : RegexSearch(k, sen)

(***************************************************************************)
(* DuoParser.__regex and DuoParser.__pipeline_step.                        *)
(***************************************************************************)

\* str.strip()
RECURSIVE LStrip(_)
LStrip(s) == IF s # <<>> /\ IsSpace(Head(s)) THEN LStrip(Tail(s)) ELSE s

RECURSIVE RStrip(_)
RStrip(s) ==
    IF s # <<>> /\ IsSpace(s[Len(s)]) THEN RStrip(SubSeq(s, 1, Len(s) - 1)) ELSE s

Strip(s) == RStrip(LStrip(s))

\* re.sub(regular_expression, " ", sen)
Sub(sen) == [i \in DOMAIN sen |-> IF tab_whitespace(sen[i]) THEN " " ELSE sen[i]]

\* the dictionary __regex returns: a compiled pattern is the record naming it,
\* and the headers pattern carries the keys it was joined from
regex(sentences) ==
    [line_tab_break |-> [name |-> "line_tab_break", keys |-> {}],
     headers |-> [name |-> "headers", keys |-> headers_keys(sentences)],
     invalid_char |-> [name |-> "invalid_char", keys |-> {}],
     tab_whitespace |-> [name |-> "tab_whitespace", keys |-> {}],
     numbers |-> [name |-> "numbers", keys |-> {}]]

\* whether regular_expression.findall(sen) is non-empty
findall(regular_expression, sen) ==
    CASE regular_expression.name = "line_tab_break" -> line_tab_break(sen)
      [] regular_expression.name = "headers" -> headers(regular_expression.keys, sen)
      [] regular_expression.name = "invalid_char" -> invalid_char(sen)
      [] regular_expression.name = "numbers" -> numbers(sen)
      [] regular_expression.name = "tab_whitespace" ->
            \E i \in DOMAIN sen : tab_whitespace(sen[i])

\* __pipeline_step with length None: "find_all" keeps sen when findall(sen) is
\* empty, "sub" substitutes and strips, any other operation appends nothing
pipeline_step(sentences_to_process, regular_expression, expression_operation) ==
    CASE expression_operation = "find_all" ->
            SelectSeq(sentences_to_process,
                      LAMBDA sen : ~findall(regular_expression, sen))
      [] expression_operation = "sub" ->
            [i \in DOMAIN sentences_to_process |->
                Strip(Sub(sentences_to_process[i]))]
      [] OTHER -> <<>>

\* len(sen.split()): the number of maximal runs of non-whitespace
SplitLen(sen) ==
    Cardinality({i \in DOMAIN sen :
                    /\ ~IsSpace(sen[i])
                    /\ (i = 1 \/ IsSpace(sen[i - 1]))})

\* __pipeline_step with a length: keep sen when it has more than `length` words
pipeline_step_length(sentences_to_process, length) ==
    SelectSeq(sentences_to_process, LAMBDA sen : SplitLen(sen) > length)

(***************************************************************************)
(* The sentence splitter of the annotation pipeline (doc.sents), an        *)
(* external capability: a line is one sentence, or is cut after a full     *)
(* stop that a space follows; str(s) omits the space after the cut.        *)
(***************************************************************************)
Boundaries(line) ==
    {i \in 1..(Len(line) - 2) : line[i] = "." /\ line[i + 1] = " "}

Sents(line) ==
    {<<line>>} \cup
    {<<SubSeq(line, 1, i), SubSeq(line, i + 2, Len(line))>> : i \in Boundaries(line)}

\* every way the splitter may segment the lines, in file order
RECURSIVE Segmentations(_)
Segmentations(lines) ==
    IF lines = <<>> THEN {<<>>}
    ELSE {s \o rest : s \in Sents(Head(lines)), rest \in Segmentations(Tail(lines))}

(***************************************************************************)
(* Texts.                                                                  *)
(***************************************************************************)
Kapitel == <<"K", "a", "p", "i", "t", "e", "l", " ", "1", NL>>

Beispiel ==
    <<"D", "a", "s", " ", "i", "s", "t", " ", "e", "i", "n", " ", "B", "e", "i",
      "s", "p", "i", "e", "l", " ", "f", "U+00FC", "r", " ", "e", "i", "n", "e",
      "n", " ", "S", "a", "t", "z", ".", NL>>

Abendessen ==
    <<"E", "r", " ", "g", "e", "h", "t", " ", "n", "a", "c", "h", " ", "H", "a",
      "u", "s", "e", " ", "u", "n", "d", " ", "k", "o", "c", "h", "t", " ", "A",
      "b", "e", "n", "d", "e", "s", "s", "e", "n", ".", NL>>

\* the end-to-end scenario's file
ScenarioLines == <<Kapitel, <<TAB, NL>>, Beispiel, Beispiel, Beispiel, Abendessen>>

\* the lines generated files are made of
LinePool ==
    { <<TAB>>,                                          \* a last line without newline
      <<NL>>,
      <<TAB, NL>>,
      <<"a", " ", "b", NL>>,
      <<"a", " ", "b", " ", "c", NL>>,
      <<"a", " ", "b", " ", "c", ".", " ", "b", " ", "a", " ", "c", NL>>,
      <<"b", " ", "a", " ", "c", NL>>,
      <<"a", " ", "1", " ", "c", NL>>,
      <<"a", " ", "-", " ", "c", NL>> }

SeqsUpTo(S, n) == UNION {[1..k -> S] : k \in 0..n}

FileContents == SeqsUpTo(LinePool, MaxLines) \cup {ScenarioLines}

(***************************************************************************)
(* sentences_preprocess, as one step: the record of its locals.            *)
(***************************************************************************)
Preprocess(tokenized) ==
    LET empty_removed ==
            pipeline_step(tokenized, regex(<<>>).line_tab_break, "find_all")
        set_length == pipeline_step_length(empty_removed, 2)
        strip_tab_whitespace ==
            pipeline_step(set_length, regex(<<>>).tab_whitespace, "sub")
        expressions == regex(strip_tab_whitespace)
        headers_removed ==
            pipeline_step(strip_tab_whitespace, expressions.headers, "find_all")
        invalid_char_removed ==
            pipeline_step(headers_removed, expressions.invalid_char, "find_all")
        numbers_removed ==
            pipeline_step(invalid_char_removed, expressions.numbers, "find_all")
    IN  [sentences_empty_removed |-> empty_removed,
         sentences_set_length |-> set_length,
         sentences_strip_tab_whitespace |-> strip_tab_whitespace,
         sentence_headers_removed |-> headers_removed,
         sentence_invalid_char_removed |-> invalid_char_removed,
         processed |-> numbers_removed]

(***************************************************************************)
(* The annotated sentences.  A Doc is the sequence of its tokens'          *)
(* `_.syllables` values: None, or the list of the token's syllable units.  *)
(* Docs are dictionary keys by identity, so a Doc is named by its position *)
(* in self.__spacy_sentences.                                              *)
(***************************************************************************)
None == [isNone |-> TRUE, units |-> <<>>]

Units(u) == [isNone |-> FALSE, units |-> u]

DocPool ==
    { <<None>>,
      <<Units(<<"Satz">>)>>,
      <<Units(<<"Hau", "se">>)>>,
      <<Units(<<"geht">>), None>>,
      <<Units(<<"Hau", "se">>), Units(<<"und">>)>>,
      <<Units(<<"A", "bend", "es", "sen">>), None>> }

\* the ranking example {A: 5, B: 9, C: 9, D: 2}
ExampleDocs ==
    << <<Units(<<"a", "b", "c">>), Units(<<"d", "e">>)>>,
       <<Units(<<"a", "b", "c">>), Units(<<"d", "e", "f">>), Units(<<"g", "h", "i">>)>>,
       <<Units(<<"a", "b", "c">>), Units(<<"d", "e", "f">>), Units(<<"g", "h", "i">>)>>,
       <<Units(<<"a", "b">>)>> >>

\* spacy_syllabizer: per sentence, the list of each word's syllables, or the
\* str "U+2205" (the empty-set sign) for a word that has none.  A list is kept
\* as its elements, a str as its characters: what iterating over it yields.
spacy_syllabizer(sentences) ==
    [i \in DOMAIN sentences |->
        [sen |-> i,
         syllables |->
            [w \in DOMAIN sentences[i] |->
                IF ~sentences[i][w].isNone
                THEN [kind |-> "list", items |-> sentences[i][w].units]
                ELSE [kind |-> "str", items |-> <<"U+2205">>]]]]

\* f = [x for xs in syllables for x in xs]; f_len = len(f)
f_len(syllables) ==
    Len(Flatten([w \in DOMAIN syllables |-> syllables[w].items]))

\* a faulty variant: both comparisons strict
keeps_strict(n, amount, eq) ==
    \/ eq = "greater" /\ n > amount
    \/ eq = "less" /\ n < amount

\* the if / elif of the loop body: whether syllable_results[sen] is set
keeps(n, amount, eq) ==
    \/ eq = "greater" /\ n >= amount
    \/ eq = "less" /\ n <= amount

\* sorted(..., key=item[1], reverse=True) is stable: an item goes behind
\* every item whose count is at least its own
RECURSIVE InsertDesc(_, _)
InsertDesc(item, sorted) ==
    IF sorted = <<>> THEN <<item>>
    ELSE IF Head(sorted).f_len >= item.f_len
         THEN <<Head(sorted)>> \o InsertDesc(item, Tail(sorted))
         ELSE <<item>> \o sorted

RECURSIVE SortedDesc(_)
SortedDesc(items) ==
    IF items = <<>> THEN <<>>
    ELSE InsertDesc(items[Len(items)], SortedDesc(SubSeq(items, 1, Len(items) - 1)))

\* sentences_set_syllable_length: the (sentence, count) items of the mapping
\* it returns, in the mapping's order
sentences_set_syllable_length(syllabized, amount, eq) ==
    LET syllable_results ==
            [i \in DOMAIN syllabized |->
                [sen |-> syllabized[i].sen, f_len |-> f_len(syllabized[i].syllables)]]
    IN  SortedDesc(SelectSeq(syllable_results,
                             LAMBDA item : keeps(item.f_len, amount, eq)))

(***************************************************************************)
(* save_syllabized_results.                                                *)
(***************************************************************************)
Values(syllables) == [k \in DOMAIN syllables |-> syllables[k].f_len]

\* the values that occur most often
Modes(values) ==
    {values[k] : k \in {j \in DOMAIN values :
        \A l \in DOMAIN values : Count(values, values[l]) <= Count(values, values[j])}}

\* statistics.mode: the first of the most common values
FirstMode(values) ==
    values[CHOOSE k \in DOMAIN values :
              /\ values[k] \in Modes(values)
              /\ \A j \in 1..(k - 1) : values[j] \notin Modes(values)]

\* the statement that raises statistics.StatisticsError, or "none"
StatisticsFailure(values, needs_unique) ==
    IF Len(values) = 0 THEN "mean"
    ELSE IF needs_unique /\ Cardinality(Modes(values)) > 1 THEN "mode"
    ELSE IF Len(values) < 2 THEN "stdev"
    ELSE "none"

\* the line the summary print shows: the count, the mean and the sample
\* variance as fractions <<numerator, denominator>>, and the mode
Summary(values) ==
    LET n == Len(values)
        total == SeqSum(values)
        squares == SeqSum([k \in DOMAIN values |-> values[k] * values[k]])
    IN  [sen_amount |-> n,
         mean |-> <<total, n>>,
         mode |-> FirstMode(values),
         variance |-> <<n * squares - total * total, n * (n - 1)>>]

\* a faulty variant: df.to_csv ahead of the statistics
save_syllabized_results_csv_first(syllables, needs_unique) ==
    LET values == Values(syllables)
        failure == StatisticsFailure(values, needs_unique)
    IN  [raised |-> IF failure = "none" THEN "none" ELSE "StatisticsError",
         at |-> failure,
         summary |-> IF failure = "none" THEN <<Summary(values)>> ELSE <<>>,
         to_csv |-> TRUE]

\* the statements in order: df.head() printed, mean, mode, stdev, the summary
\* printed, df.to_csv; a raise skips what follows it
save_syllabized_results(syllables, needs_unique) ==
    LET values == Values(syllables)
        failure == StatisticsFailure(values, needs_unique)
    IN  [raised |-> IF failure = "none" THEN "none" ELSE "StatisticsError",
         at |-> failure,
         summary |-> IF failure = "none" THEN <<Summary(values)>> ELSE <<>>,
         to_csv |-> failure = "none"]

NotSaved == [raised |-> "none", at |-> "none", summary |-> <<>>, to_csv |-> FALSE]

(***************************************************************************)
(* Initial values of the three groups of variables.                        *)
(***************************************************************************)
CleanIdle ==
    /\ spacy_sentence_tokenizer = TRUE
    /\ duo_file_data = <<>>
    /\ tokenized_sentences = <<>>
    /\ sentences_empty_removed = <<>>
    /\ sentences_set_length = <<>>
    /\ sentences_strip_tab_whitespace = <<>>
    /\ sentence_headers_removed = <<>>
    /\ sentence_invalid_char_removed = <<>>
    /\ processed = <<>>

RankIdle ==
    /\ spacy_sentences = <<>>
    /\ spacy_syllabized = <<>>
    /\ syllable_amount = 10
    /\ equality = "greater"
    /\ sorted_results = <<>>

MainIdle ==
    /\ file_idx = 1
    /\ dir_files = {}
    /\ mode_needs_unique = FALSE
    /\ attempted = {}
    /\ saved = NotSaved
    /\ written = {}
    /\ raised = "none"

\* the assignments sentences_preprocess makes, from the segmented sentences
SetCleaned(tokenized) ==
    LET r == Preprocess(tokenized)
    IN  /\ tokenized_sentences' = tokenized
        /\ sentences_empty_removed' = r.sentences_empty_removed
        /\ sentences_set_length' = r.sentences_set_length
        /\ sentences_strip_tab_whitespace' = r.sentences_strip_tab_whitespace
        /\ sentence_headers_removed' = r.sentence_headers_removed
        /\ sentence_invalid_char_removed' = r.sentence_invalid_char_removed
        /\ processed' = r.processed

(***************************************************************************)
(* SpecClean: sentences_preprocess on a file's lines.                      *)
(***************************************************************************)
InitClean ==
    /\ pc = "start"
    /\ spacy_sentence_tokenizer \in BOOLEAN
    /\ duo_file_data \in FileContents
    /\ tokenized_sentences = <<>>
    /\ sentences_empty_removed = <<>>
    /\ sentences_set_length = <<>>
    /\ sentences_strip_tab_whitespace = <<>>
    /\ sentence_headers_removed = <<>>
    /\ sentence_invalid_char_removed = <<>>
    /\ processed = <<>>
    /\ RankIdle
    /\ MainIdle

sentences_preprocess ==
    /\ pc = "start"
    /\ \E tokenized \in IF spacy_sentence_tokenizer
                        THEN Segmentations(duo_file_data)
                        ELSE {duo_file_data} :
          SetCleaned(tokenized)
    /\ pc' = "preprocessed"
    /\ UNCHANGED <<spacy_sentence_tokenizer, duo_file_data>>
    /\ UNCHANGED rank_vars
    /\ UNCHANGED main_vars

NextClean == sentences_preprocess

SpecClean == InitClean /\ [][NextClean]_vars

(***************************************************************************)
(* SpecRank: spacy_syllabizer, then sentences_set_syllable_length, on      *)
(* annotated sentences.                                                    *)
(***************************************************************************)
Equalities == {"greater", "less", "equal"}

InitRank ==
    /\ pc = "start"
    /\ CleanIdle
    /\ \/ /\ spacy_sentences \in SeqsUpTo(DocPool, MaxSentences)
          /\ syllable_amount \in 0..MaxThreshold
          /\ equality \in Equalities
       \/ /\ spacy_sentences = ExampleDocs
          /\ syllable_amount = 5
          /\ equality = "greater"
    /\ spacy_syllabized = <<>>
    /\ sorted_results = <<>>
    /\ MainIdle

Syllabize ==
    /\ pc = "start"
    /\ spacy_syllabized' = spacy_syllabizer(spacy_sentences)
    /\ pc' = "syllabized"
    /\ UNCHANGED <<spacy_sentences, syllable_amount, equality, sorted_results>>
    /\ UNCHANGED clean_vars
    /\ UNCHANGED main_vars

Rank ==
    /\ pc = "syllabized"
    /\ sorted_results' =
          sentences_set_syllable_length(spacy_syllabized, syllable_amount, equality)
    /\ pc' = "ranked"
    /\ UNCHANGED <<spacy_sentences, spacy_syllabized, syllable_amount, equality>>
    /\ UNCHANGED clean_vars
    /\ UNCHANGED main_vars

NextRank == Syllabize \/ Rank

SpecRank == InitRank /\ [][NextRank]_vars

(***************************************************************************)
(* Spec: the driver of main.py.  For each file of `files`, in order:       *)
(* DuoParser(...), sentences_set_syllable_length(0, "greater"),            *)
(* save_syllabized_results.  There is no try statement: an exception ends  *)
(* the program.                                                            *)
(***************************************************************************)
files == <<"DUO-A1_Kapitel1.txt", "DUO-A1.2.txt", "DUO-B1.txt">>

\* self.save_file
save_file(user_file) == <<"results/", user_file, "_syllables.csv">>

\* a file with a repeated header and two other sentences
RepeatedHeaderLines ==
    << <<"a", " ", "b", " ", "c", NL>>,
       <<"a", " ", "b", " ", "c", NL>>,
       <<"a", " ", "b", " ", "c", NL>>,
       <<"b", " ", "a", " ", "c", NL>>,
       <<"b", " ", "a", " ", "c", NL>> >>

\* what the files of the batch may hold
BatchContents ==
    {c \in FileContents : Len(c) <= 1} \cup {ScenarioLines, RepeatedHeaderLines}

\* spacy_tokenizer: a Doc per processed sentence; the tagger (external) decides
\* which have a VERB and no NUM, and those are kept in order
Annotations(sentences) ==
    UNION {[1..k -> DocPool] : k \in 0..Len(sentences)}

Init ==
    /\ pc = "loop"
    /\ CleanIdle
    /\ RankIdle
    /\ file_idx = 1
    /\ dir_files \in SUBSET {files[i] : i \in DOMAIN files}
    /\ mode_needs_unique \in BOOLEAN
    /\ attempted = {}
    /\ saved = NotSaved
    /\ written = {}
    /\ raised = "none"

\* get_raw_duo_file_content: file_data.get(user_file) is None for a name that
\* is not indexed, and open(None) raises TypeError
ConstructLookupError ==
    /\ pc = "loop"
    /\ files[file_idx] \notin dir_files
    /\ attempted' = attempted \cup {file_idx}
    /\ raised' = "TypeError"
    /\ pc' = "crashed"
    /\ UNCHANGED <<file_idx, dir_files, mode_needs_unique, saved, written>>
    /\ UNCHANGED clean_vars
    /\ UNCHANGED rank_vars

\* nlp(...) raises on the file's text
ConstructAnnotationError ==
    /\ pc = "loop"
    /\ files[file_idx] \in dir_files
    /\ \E content \in BatchContents : duo_file_data' = content
    /\ attempted' = attempted \cup {file_idx}
    /\ raised' = "AnnotationError"
    /\ pc' = "crashed"
    /\ UNCHANGED <<file_idx, dir_files, mode_needs_unique, saved, written>>
    /\ UNCHANGED <<spacy_sentence_tokenizer, tokenized_sentences,
                   sentences_empty_removed, sentences_set_length,
                   sentences_strip_tab_whitespace, sentence_headers_removed,
                   sentence_invalid_char_removed, processed>>
    /\ UNCHANGED rank_vars

\* DuoParser.__init__: spacy_tokenizer (sentences_preprocess inside it), then
\* spacy_syllabizer
Construct ==
    /\ pc = "loop"
    /\ files[file_idx] \in dir_files
    /\ \E content \in BatchContents :
          /\ duo_file_data' = content
          /\ \E tokenized \in Segmentations(content) : SetCleaned(tokenized)
    /\ \E docs \in Annotations(processed') :
          /\ spacy_sentences' = docs
          /\ spacy_syllabized' = spacy_syllabizer(docs)
    /\ attempted' = attempted \cup {file_idx}
    /\ pc' = "constructed"
    /\ UNCHANGED <<spacy_sentence_tokenizer, syllable_amount, equality,
                   sorted_results>>
    /\ UNCHANGED <<file_idx, dir_files, mode_needs_unique, saved, written, raised>>

\* duo_parser.sentences_set_syllable_length(syllable_amount=0, equality="greater")
RankFile ==
    /\ pc = "constructed"
    /\ syllable_amount' = 0
    /\ equality' = "greater"
    /\ sorted_results' = sentences_set_syllable_length(spacy_syllabized, 0, "greater")
    /\ pc' = "ranked"
    /\ UNCHANGED <<spacy_sentences, spacy_syllabized>>
    /\ UNCHANGED clean_vars
    /\ UNCHANGED main_vars

\* duo_parser.save_syllabized_results(syllables), then the next file
Save ==
    /\ pc = "ranked"
    /\ LET out == save_syllabized_results(sorted_results, mode_needs_unique)
       IN  /\ saved' = out
           /\ written' = IF out.to_csv
                         THEN written \cup {save_file(files[file_idx])}
                         ELSE written
           /\ raised' = out.raised
           /\ IF out.raised # "none"
              THEN pc' = "crashed" /\ file_idx' = file_idx
              ELSE IF file_idx = Len(files)
                   THEN pc' = "done" /\ file_idx' = file_idx
                   ELSE pc' = "loop" /\ file_idx' = file_idx + 1
    /\ UNCHANGED <<dir_files, mode_needs_unique, attempted>>
    /\ UNCHANGED clean_vars
    /\ UNCHANGED rank_vars

Next ==
    \/ ConstructLookupError
    \/ ConstructAnnotationError
    \/ Construct
    \/ RankFile
    \/ Save

Spec == Init /\ [][Next]_vars

(***************************************************************************)
(* Properties of the cleaning pipeline (SpecClean).                        *)
(***************************************************************************)

\* C1: when no sentence text occurs 3 or more times in the list that reaches
\* repeated-header removal, the header step is a no-op: every sentence of its
\* input passes through unchanged and in the same order.
C1_HeaderStepNoOp ==
    pc = "preprocessed" =>
        ((\A i \in DOMAIN sentences_strip_tab_whitespace :
              Count(sentences_strip_tab_whitespace,
                    sentences_strip_tab_whitespace[i]) < 3)
            => sentence_headers_removed = sentences_strip_tab_whitespace)

\* C6: a text that occurs exactly 3 times in the list that reaches
\* repeated-header removal has all its occurrences removed, and a text that
\* occurs exactly 2 times has none removed.
C6_ThreeRemovedTwoKept ==
    pc = "preprocessed" =>
        \A i \in DOMAIN sentences_strip_tab_whitespace :
            LET text == sentences_strip_tab_whitespace[i]
                before == Count(sentences_strip_tab_whitespace, text)
                after == Count(sentence_headers_removed, text)
            IN  /\ before = 3 => after = 0
                /\ before = 2 => after = 2

C9_ScenarioLastSurvives ==
    (/\ pc = "preprocessed"
     /\ duo_file_data = ScenarioLines
     /\ tokenized_sentences = duo_file_data)
        => processed = <<SubSeq(Abendessen, 1, Len(Abendessen) - 1)>>

\* C9 witness: the scenario has been cleaned with one sentence per line, the
\* three copies of the example sentence having reached header removal.
C9_Witness ==
    /\ pc = "preprocessed"
    /\ duo_file_data = ScenarioLines
    /\ tokenized_sentences = duo_file_data
    /\ Len(sentences_strip_tab_whitespace) = 4
    /\ Len(processed) = 1

(***************************************************************************)
(* Properties of the syllable ranker (SpecRank).                           *)
(***************************************************************************)

\* C2: the total syllable count of every sentence in the ranking equals the
\* number of syllable units over its tokens that have a breakdown; a token
\* recorded with the placeholder contributes zero.
C2_SentinelCountsZero ==
    pc = "ranked" =>
        \A k \in DOMAIN sorted_results :
            LET doc == spacy_sentences[sorted_results[k].sen]
            IN  sorted_results[k].f_len =
                    SeqSum([w \in DOMAIN doc |->
                               IF doc[w].isNone THEN 0 ELSE Len(doc[w].units)])

\* C3: with an equality mode other than "greater" or "less" the call fails
\* and returns no ranking.
C3_OtherModeRejected ==
    equality \notin {"greater", "less"} => pc # "ranked"

C4_BatchContinues ==
    pc \in {"done", "crashed"} => attempted = DOMAIN files

\* C5: a statistics failure in save_syllabized_results (an empty mapping, a
\* single entry) is caught and reported, never propagated.
C5_StatisticsFailureCaught ==
    ~(pc = "crashed" /\ raised = "StatisticsError")

\* C10: the result file is written only after mean, mode and standard
\* deviation were computed and the summary printed; when one of them fails,
\* no result file is written for that input file.
C10_NoFileOnFailure ==
    /\ saved.to_csv => (saved.raised = "none" /\ saved.summary # <<>>)
    /\ saved.raised # "none" => save_file(files[file_idx]) \notin written

\* C10 witness: the first file was saved, and the statistics of the second
\* failed.
C10_Witness ==
    /\ pc = "crashed"
    /\ raised = "StatisticsError"
    /\ file_idx = 2
    /\ written = {save_file(files[1])}

====
